---- MODULE Spec2Model ----
(***************************************************************************)
(* A model of covid_model.py: the Agent state machine (move,               *)
(* update_infected, update_recovered, update_susceptible, update_lockdown) *)
(* and CovidModel (construction, step, remove_deaths,                      *)
(* add_import_infected).                                                   *)
(*                                                                         *)
(* Probabilities are integers in percent (0.25 is 25).  A random draw is   *)
(* a choice (\E) over the outcomes the draw can produce.  The objects of   *)
(* class Agent are numbered by their order of creation (1, 2, ...): this   *)
(* number is the object's identity, as distinct from its unique_id.        *)
(* agents holds the objects the model still refers to (from the schedule   *)
(* or from the grid); created is the history of the unique_ids given to    *)
(* Agent(...), in order of creation, and removed the set of the objects    *)
(* remove_deaths has removed; import_draws is the outcomes of the draws    *)
(* the importation of the current call of step() has made.                 *)
(* isolation_enabled is "no" for the value the source compares with        *)
(* (line 104) and "yes" for the other choice of line 34.                   *)
(***************************************************************************)
EXTENDS Integers, Sequences, FiniteSets, TLC

\* ---- bounds of the model ----
MaxCreated == 2
MaxImportIds == 2
MaxWidth == 2
MaxHeight == 1
MaxPeriod == 2
MaxSteps == 5

\* ---- constants of the program ----
ImportIdLow == 9999
LockdownProb == 90
DeathProb == 10

VARIABLES cfg, agents, created, removed, schedule, grid, deaths, steps, collected, import_draws, pc, cur, todo, sweep

vars == <<cfg, agents, created, removed, schedule, grid, deaths, steps, collected, import_draws, pc,
          cur, todo, sweep>>

\* ---- random draws ----

\* a draw that can succeed at probability 0
BernoulliNeverCertain(p) == IF p = 100 THEN {TRUE} ELSE {TRUE, FALSE}

\* ss.bernoulli.rvs(p) for a valid p: the outcomes that have positive probability
Bernoulli(p) == IF p = 0 THEN {FALSE} ELSE IF p = 100 THEN {TRUE} ELSE {TRUE, FALSE}

\* ss.bernoulli.rvs(p) raises ValueError when p is outside [0, 1]
BernoulliRaises(p) == p < 0 \/ p > 100

\* np.random.choice([-1, 0, 1])
Offsets == {-1, 0, 1}

\* self.random.randrange(9999, 999999), cut to its first MaxImportIds values
ImportIds == ImportIdLow .. (ImportIdLow + MaxImportIds - 1)

Min(a, b) == IF a < b THEN a ELSE b
Max(a, b) == IF a > b THEN a ELSE b

\* the pos of an agent that was never placed (None)
NoPos == <<>>

\* ---- configurations ----
Probs == {0, 50, 100}

\* values that are no probabilities, with one that is
AnyProbs == {-50, 50, 150}

ValidConfig(c) ==
    /\ \A p \in {c.infected_import, c.init_infected, c.perc_masked,
                 c.prob_trans_masked, c.prob_trans_unmasked, c.prob_fatal} :
          p >= 0 /\ p <= 100
    /\ c.infection_period > 0 /\ c.immunity_period > 0
    /\ c.width > 0 /\ c.height > 0

\* ---- Agent ----

\* the countdown drawn from 1 .. infection_period + 1
NewAgentsLate(c, uid) ==
    UNION { { [unique_id |-> uid, masked |-> m, infected |-> i, immune |-> FALSE,
               fatal |-> FALSE, lockdown |-> FALSE,
               recovery_countdown |-> r, immunity_countdown |-> 0, pos |-> NoPos]
              : r \in (IF i THEN 1 .. c.infection_period + 1 ELSE {0}) }
            : m \in Bernoulli(c.perc_masked), i \in Bernoulli(c.init_infected) }

\* Agent.__init__(unique_id, model): the objects it can produce, for a
\* configuration whose draws do not raise
NewAgents(c, uid) ==
    UNION { { [unique_id |-> uid, masked |-> m, infected |-> i, immune |-> FALSE,
               fatal |-> FALSE, lockdown |-> FALSE,
               recovery_countdown |-> r, immunity_countdown |-> 0, pos |-> NoPos]
              : r \in (IF i THEN 1 .. c.infection_period ELSE {0}) }
            : m \in Bernoulli(c.perc_masked), i \in Bernoulli(c.init_infected) }

\* the cells (self.random.randrange(width), self.random.randrange(height))
Cells(c) == (0 .. c.width - 1) \X (0 .. c.height - 1)

\* the agents grid.get_cell_list_contents(pos) returns
CellAgents(p) == { o \in grid : agents[o].pos = p }

\* ---- CovidModel: counters ----
Scheduled == { schedule[i] : i \in 1 .. Len(schedule) }

susceptible == Cardinality({ i \in 1 .. Len(schedule) :
                    ~(agents[schedule[i]].immune \/ agents[schedule[i]].infected) })
infected == Cardinality({ i \in 1 .. Len(schedule) : agents[schedule[i]].infected })
immune == Cardinality({ i \in 1 .. Len(schedule) : agents[schedule[i]].immune })
death == deaths

\* ---- CovidModel.__init__ ----

\* the agents the loop of lines 144-151 can create and place
Constructed(c) ==
    { a \in [1 .. c.no_agents ->
               UNION { { [n EXCEPT !.pos = p] : p \in Cells(c) }
                       : n \in UNION { NewAgents(c, i) : i \in 0 .. c.no_agents - 1 } }] :
        \A o \in 1 .. c.no_agents : a[o].unique_id = o - 1 }

InitWith(c) ==
    /\ cfg = c
    /\ agents \in Constructed(c)
    /\ created = [o \in 1 .. c.no_agents |-> o - 1]
    /\ removed = {}
    /\ schedule = [o \in 1 .. c.no_agents |-> o]
    /\ grid = 1 .. c.no_agents
    /\ deaths = 0
    /\ steps = 0
    /\ collected = <<>>
    /\ import_draws = <<>>
    /\ pc = "idle"
    /\ cur = 0
    /\ todo = {}
    /\ sweep = <<>>

\* a probability strictly between 0 and 1: both outcomes of a draw can happen,
\* so the runs with it include the runs with any other valid probability
Mixed == {50}

Configs ==
    [no_agents : 0 .. MaxCreated, width : 1 .. MaxWidth, height : 1 .. MaxHeight,
     infected_import : Mixed, init_infected : Mixed, perc_masked : Mixed,
     prob_trans_masked : Mixed, prob_trans_unmasked : Mixed, prob_fatal : Mixed,
     infection_period : 1 .. MaxPeriod, immunity_period : 1 .. MaxPeriod,
     isolation_enabled : {"no", "yes"}]

Init == \E c \in Configs : InitWith(c)

\* ---- CovidModel.step ----

\* a step that records nothing
StepBeginUncollected ==
    /\ pc \in {"idle", "raised"}
    /\ steps < MaxSteps
    /\ collected' = collected
    /\ import_draws' = <<>>
    /\ todo' = Scheduled
    /\ pc' = "schedule"
    /\ UNCHANGED <<cfg, agents, created, removed, schedule, grid, deaths, steps, cur, sweep>>

\* self.datacollector.collect(self), then schedule.step() starts with the keys
\* of the schedule (in an order the shuffle chooses)
StepBegin ==
    /\ pc \in {"idle", "raised"}
    /\ steps < MaxSteps
    /\ collected' = <<susceptible, infected, death, immune>>
    /\ import_draws' = <<>>
    /\ todo' = Scheduled
    /\ pc' = "schedule"
    /\ UNCHANGED <<cfg, agents, created, removed, schedule, grid, deaths, steps, cur, sweep>>

\* an activation that leaves the agent among those still to activate
ScheduleNextKeeps ==
    /\ pc = "schedule"
    /\ \E o \in todo :
         /\ cur' = o
         /\ todo' = todo
    /\ pc' = "move"
    /\ UNCHANGED <<cfg, agents, created, removed, schedule, grid, deaths, steps, collected, import_draws, sweep>>

\* RandomActivation.step: the next agent of the shuffled order
ScheduleNext ==
    /\ pc = "schedule"
    /\ \E o \in todo :
         /\ cur' = o
         /\ todo' = todo \ {o}
    /\ pc' = "move"
    /\ UNCHANGED <<cfg, agents, created, removed, schedule, grid, deaths, steps, collected, import_draws, sweep>>

\* RandomActivation.step: every agent was activated; remove_deaths starts on
\* the list schedule.agents
ScheduleDone ==
    /\ pc = "schedule"
    /\ todo = {}
    /\ steps' = steps + 1
    /\ sweep' = schedule
    /\ pc' = "remove_deaths"
    /\ UNCHANGED <<cfg, agents, created, removed, schedule, grid, deaths, collected, import_draws, cur, todo>>

\* ---- Agent.step ----
\* the clamp without its upper limit
ClampBelow(v, hi) == Max(v, 0)

Clamp(v, hi) == Min(Max(v, 0), hi)

\* Agent.move: the agent after the move, for the drawn offsets
move(self, dx, dy) ==
    LET x == self.pos[1]
        y == self.pos[2]
        new_x == Clamp(dx + x, cfg.width - 1)
        new_y == Clamp(dy + y, cfg.height - 1)
    IN IF ~self.lockdown THEN [self EXCEPT !.pos = <<new_x, new_y>>] ELSE self

Move ==
    /\ pc = "move"
    /\ \E dx \in Offsets, dy \in Offsets :
         agents' = [agents EXCEPT ![cur] = move(agents[cur], dx, dy)]
    /\ pc' = "update_infected"
    /\ UNCHANGED <<cfg, created, removed, schedule, grid, deaths, steps, collected, import_draws, cur, todo, sweep>>

\* the two probabilities exchanged
TransProbSwapped(self) ==
    IF self.masked THEN cfg.prob_trans_unmasked ELSE cfg.prob_trans_masked

\* the probability of lines 76-81
TransProb(self) == IF self.masked THEN cfg.prob_trans_masked ELSE cfg.prob_trans_unmasked

\* the test of line 74 without its lockdown part
any_infected_lockdown_blind(self) ==
    \E o \in CellAgents(self.pos) : agents[o].infected

\* line 74: any(a.infected and (not a.lockdown) for a in cell_agents)
any_infected(self) ==
    \E o \in CellAgents(self.pos) : agents[o].infected /\ ~agents[o].lockdown

\* Agent.update_infected: the agents it can leave
update_infected(self) ==
    IF self.infected \/ self.immune
      THEN {self}
      ELSE UNION { IF i
                     THEN { [self EXCEPT !.infected = TRUE,
                                         !.recovery_countdown = cfg.infection_period,
                                         !.fatal = f] : f \in Bernoulli(cfg.prob_fatal) }
                     ELSE { [self EXCEPT !.infected = FALSE] }
                   : i \in (IF any_infected(self) THEN Bernoulli(TransProb(self))
                                                  ELSE {self.infected}) }

UpdateInfected ==
    /\ pc = "update_infected"
    /\ \E a \in update_infected(agents[cur]) : agents' = [agents EXCEPT ![cur] = a]
    /\ pc' = "update_recovered"
    /\ UNCHANGED <<cfg, created, removed, schedule, grid, deaths, steps, collected, import_draws, cur, todo, sweep>>

\* recovery that leaves infected set
update_recovered_stays_infected(self) ==
    LET a1 == IF self.recovery_countdown = 1
                THEN [self EXCEPT !.immune = TRUE,
                                  !.immunity_countdown = cfg.immunity_period]
                ELSE self
    IN IF a1.recovery_countdown > 0
         THEN [a1 EXCEPT !.recovery_countdown = a1.recovery_countdown - 1]
         ELSE a1

\* recovery with the decrement as the alternative (elif) of the transition
update_recovered_elif(self) ==
    IF self.recovery_countdown = 1
      THEN [self EXCEPT !.infected = FALSE, !.immune = TRUE,
                        !.immunity_countdown = cfg.immunity_period]
      ELSE IF self.recovery_countdown > 0
        THEN [self EXCEPT !.recovery_countdown = self.recovery_countdown - 1]
        ELSE self

\* recovery that clears fatal
update_recovered_clears_fatal(self) ==
    LET a1 == IF self.recovery_countdown = 1
                THEN [self EXCEPT !.infected = FALSE, !.immune = TRUE, !.fatal = FALSE,
                                  !.immunity_countdown = cfg.immunity_period]
                ELSE self
    IN IF a1.recovery_countdown > 0
         THEN [a1 EXCEPT !.recovery_countdown = a1.recovery_countdown - 1]
         ELSE a1

\* Agent.update_recovered
update_recovered(self) ==
    LET a1 == IF self.recovery_countdown = 1
                THEN [self EXCEPT !.infected = FALSE, !.immune = TRUE,
                                  !.immunity_countdown = cfg.immunity_period]
                ELSE self
    IN IF a1.recovery_countdown > 0
         THEN [a1 EXCEPT !.recovery_countdown = a1.recovery_countdown - 1]
         ELSE a1

UpdateRecovered ==
    /\ pc = "update_recovered"
    /\ agents' = [agents EXCEPT ![cur] = update_recovered(agents[cur])]
    /\ pc' = "update_susceptible"
    /\ UNCHANGED <<cfg, created, removed, schedule, grid, deaths, steps, collected, import_draws, cur, todo, sweep>>

\* Agent.update_susceptible
update_susceptible(self) ==
    LET a1 == IF self.immunity_countdown = 1 THEN [self EXCEPT !.immune = FALSE] ELSE self
    IN IF a1.immunity_countdown > 0
         THEN [a1 EXCEPT !.immunity_countdown = a1.immunity_countdown - 1]
         ELSE a1

UpdateSusceptible ==
    /\ pc = "update_susceptible"
    /\ agents' = [agents EXCEPT ![cur] = update_susceptible(agents[cur])]
    /\ pc' = "update_lockdown"
    /\ UNCHANGED <<cfg, created, removed, schedule, grid, deaths, steps, collected, import_draws, cur, todo, sweep>>

\* lockdown that does not look at isolation_enabled
update_lockdown_ignores_policy(self) ==
    IF ~(self.infected \/ self.immune)
      THEN { [self EXCEPT !.lockdown = FALSE] }
      ELSE { [self EXCEPT !.lockdown = l] : l \in Bernoulli(LockdownProb) }

\* Agent.update_lockdown: the agents it can leave
update_lockdown(self) ==
    IF ~(self.infected \/ self.immune) \/ cfg.isolation_enabled = "no"
      THEN { [self EXCEPT !.lockdown = FALSE] }
      ELSE { [self EXCEPT !.lockdown = l] : l \in Bernoulli(LockdownProb) }

\* the last sub-step of Agent.step; the schedule goes on to the next agent
UpdateLockdown ==
    /\ pc = "update_lockdown"
    /\ \E a \in update_lockdown(agents[cur]) : agents' = [agents EXCEPT ![cur] = a]
    /\ pc' = "schedule"
    /\ cur' = 0
    /\ UNCHANGED <<cfg, created, removed, schedule, grid, deaths, steps, collected, import_draws, todo, sweep>>

\* ---- CovidModel.remove_deaths ----
RemoveFromSeq(s, o) == SelectSeq(s, LAMBDA e : e # o)

\* a removal that deaths does not count
RemovalUncounted(a) ==
    /\ schedule' = RemoveFromSeq(schedule, a)
    /\ grid' = grid \ {a}
    /\ agents' = [o \in DOMAIN agents \ {a} |-> agents[o]]
    /\ deaths' = deaths
    /\ removed' = removed \cup {a}

\* lines 185-187: the agent leaves the schedule and the grid, deaths counts it
Removal(a) ==
    /\ schedule' = RemoveFromSeq(schedule, a)
    /\ grid' = grid \ {a}
    /\ agents' = [o \in DOMAIN agents \ {a} |-> agents[o]]
    /\ deaths' = deaths + 1
    /\ removed' = removed \cup {a}

\* one iteration of the loop of line 183
RemoveDeaths ==
    /\ pc = "remove_deaths"
    /\ sweep # <<>>
    /\ LET a == Head(sweep)
       IN \E d \in (IF agents[a].fatal THEN Bernoulli(DeathProb) ELSE {FALSE}) :
            IF d
              THEN Removal(a)
              ELSE UNCHANGED <<schedule, grid, agents, deaths, removed>>
    /\ sweep' = Tail(sweep)
    /\ UNCHANGED <<cfg, created, steps, collected, import_draws, pc, cur, todo>>

\* the loop of line 183 is over
RemoveDeathsDone ==
    /\ pc = "remove_deaths"
    /\ sweep = <<>>
    /\ pc' = "import"
    /\ UNCHANGED <<cfg, agents, created, removed, schedule, grid, deaths, steps, collected, import_draws, cur, todo, sweep>>

\* ---- importation: lines 202-203 and add_import_infected ----

\* schedule.add(a) when an agent with a's unique_id is in the schedule: the
\* dictionary entry is replaced in place, or (later versions of the library)
\* the call raises
DuplicateAdd == {"replace", "raise"}

\* the position in the schedule of the agent with this unique_id, 0 if none
KeyIndex(uid) ==
    IF \E i \in 1 .. Len(schedule) : agents[schedule[i]].unique_id = uid
      THEN CHOOSE i \in 1 .. Len(schedule) : agents[schedule[i]].unique_id = uid
      ELSE 0

\* the function f with the value v at the new argument o
Put(f, o, v) == [x \in DOMAIN f \cup {o} |-> IF x = o THEN v ELSE f[x]]

\* add_import_infected without its own draw (line 190)
add_import_infected_ungated ==
    /\ import_draws' = <<TRUE>>
    /\ Len(created) < MaxCreated
    /\ \E uid \in ImportIds, p \in Cells(cfg), dup \in DuplicateAdd :
         \E n \in NewAgents(cfg, uid) :
           LET o == Len(created) + 1
               a == [n EXCEPT !.infected = TRUE, !.pos = p]
               k == KeyIndex(uid)
           IN /\ created' = Append(created, uid)
              /\ IF k = 0
                   THEN /\ dup = "replace"
                        /\ agents' = Put(agents, o, a)
                        /\ schedule' = Append(schedule, o)
                        /\ grid' = grid \cup {o}
                        /\ pc' = "idle"
                   ELSE IF dup = "replace"
                     THEN /\ agents' = Put(agents, o, a)
                          /\ schedule' = [schedule EXCEPT ![k] = o]
                          /\ grid' = grid \cup {o}
                          /\ pc' = "idle"
                     ELSE /\ pc' = "raised"
                          /\ UNCHANGED <<agents, schedule, grid>>

add_import_infected ==
    \E d \in Bernoulli(cfg.infected_import) :
      /\ import_draws' = <<TRUE, d>>
      /\ IF d
           THEN /\ Len(created) < MaxCreated
                /\ \E uid \in ImportIds, p \in Cells(cfg), dup \in DuplicateAdd :
                     \E n \in NewAgents(cfg, uid) :
                       LET o == Len(created) + 1
                           a == [n EXCEPT !.infected = TRUE, !.pos = p]
                           k == KeyIndex(uid)
                       IN /\ created' = Append(created, uid)
                          /\ IF k = 0
                               THEN /\ dup = "replace"
                                    /\ agents' = Put(agents, o, a)
                                    /\ schedule' = Append(schedule, o)
                                    /\ grid' = grid \cup {o}
                                    /\ pc' = "idle"
                               ELSE IF dup = "replace"
                                 THEN /\ agents' = Put(agents, o, a)
                                      /\ schedule' = [schedule EXCEPT ![k] = o]
                                      /\ grid' = grid \cup {o}
                                      /\ pc' = "idle"
                                 ELSE /\ pc' = "raised"
                                      /\ UNCHANGED <<agents, schedule, grid>>
           ELSE /\ pc' = "idle"
                /\ UNCHANGED <<agents, created, schedule, grid>>

Import ==
    /\ pc = "import"
    /\ \E d \in Bernoulli(cfg.infected_import) :
         IF d
           THEN add_import_infected
           ELSE /\ import_draws' = <<FALSE>>
                /\ pc' = "idle"
                /\ UNCHANGED <<agents, created, schedule, grid>>
    /\ UNCHANGED <<cfg, removed, deaths, steps, collected, cur, todo, sweep>>

Next ==
    \/ StepBegin
    \/ ScheduleNext
    \/ ScheduleDone
    \/ Move
    \/ UpdateInfected
    \/ UpdateRecovered
    \/ UpdateSusceptible
    \/ UpdateLockdown
    \/ RemoveDeaths
    \/ RemoveDeathsDone
    \/ Import

Spec == Init /\ [][Next]_vars

\* ---- the scenarios of the specification, as initial states ----

\* one agent, init_infected = 1.0, infection_period = 5, prob_fatal = 0,
\* infected_import = 0
RecoveryConfigs ==
    [no_agents : {1}, width : 1 .. MaxWidth, height : 1 .. MaxHeight,
     infected_import : {0}, init_infected : {100}, perc_masked : Probs,
     prob_trans_masked : Probs, prob_trans_unmasked : Probs, prob_fatal : {0},
     infection_period : {5}, immunity_period : 1 .. MaxPeriod,
     isolation_enabled : {"no", "yes"}]

InitRecovery == \E c \in RecoveryConfigs : InitWith(c)

SpecRecovery == InitRecovery /\ [][Next]_vars

\* two agents in the one cell of a 1x1 grid, prob_trans_unmasked = 1.0; the
\* first is infected, the second susceptible and unmasked
TransmissionConfigs ==
    [no_agents : {2}, width : {1}, height : {1},
     infected_import : Probs, init_infected : Mixed, perc_masked : Mixed,
     prob_trans_masked : Mixed, prob_trans_unmasked : {100}, prob_fatal : Probs,
     infection_period : 1 .. MaxPeriod, immunity_period : 1 .. MaxPeriod,
     isolation_enabled : {"no", "yes"}]

InitTransmission ==
    /\ \E c \in TransmissionConfigs : InitWith(c)
    /\ agents[1].infected
    /\ ~agents[2].infected /\ ~agents[2].masked

SpecTransmission == InitTransmission /\ [][Next]_vars

\* infected_import = 0.0
NoImportConfigs ==
    [no_agents : 1 .. MaxCreated, width : 1 .. MaxWidth, height : 1 .. MaxHeight,
     infected_import : {0}, init_infected : Mixed, perc_masked : Mixed,
     prob_trans_masked : Mixed, prob_trans_unmasked : Mixed, prob_fatal : Mixed,
     infection_period : 1 .. MaxPeriod, immunity_period : 1 .. MaxPeriod,
     isolation_enabled : {"no", "yes"}]

InitNoImport == \E c \in NoImportConfigs : InitWith(c)

SpecNoImport == InitNoImport /\ [][Next]_vars

\* ---- construction with any arguments ----

\* the arguments of CovidModel(...), valid or not
AnyConfigs ==
    [no_agents : 1 .. 2, width : 0 .. 1, height : 0 .. 1,
     infected_import : AnyProbs, init_infected : AnyProbs, perc_masked : AnyProbs,
     prob_trans_masked : AnyProbs, prob_trans_unmasked : AnyProbs, prob_fatal : AnyProbs,
     infection_period : 0 .. 1, immunity_period : 0 .. 1,
     isolation_enabled : {"no"}]

\* before CovidModel(...) is called with the arguments cfg
InitNew ==
    /\ cfg \in AnyConfigs
    /\ agents = <<>>
    /\ created = <<>>
    /\ removed = {}
    /\ schedule = <<>>
    /\ grid = {}
    /\ deaths = 0
    /\ steps = 0
    /\ collected = <<>>
    /\ import_draws = <<>>
    /\ pc = "new"
    /\ cur = 0
    /\ todo = {}
    /\ sweep = <<>>

\* whether Agent(i, self) and the placement of lines 149-151 can raise: the
\* draws of lines 45-46 with a value outside [0, 1], np.random.randint(1, 1)
\* or below for an agent drawn infected, randrange of an empty range
AgentRaises(c) ==
    IF \/ BernoulliRaises(c.perc_masked) \/ BernoulliRaises(c.init_infected)
       \/ c.width <= 0 \/ c.height <= 0
      THEN {TRUE}
      ELSE { c.infection_period < 1 /\ i : i \in Bernoulli(c.init_infected) }

\* CovidModel.__init__: it checks none of its arguments; it fails only where
\* the creation of an agent raises
Construct ==
    /\ pc = "new"
    /\ \E raises \in (IF cfg.no_agents <= 0 THEN {FALSE} ELSE AgentRaises(cfg)) :
         IF raises
           THEN /\ pc' = "config_error"
                /\ UNCHANGED <<agents, created, schedule, grid>>
           ELSE /\ agents' \in Constructed(cfg)
                /\ created' = [o \in 1 .. cfg.no_agents |-> o - 1]
                /\ schedule' = [o \in 1 .. cfg.no_agents |-> o]
                /\ grid' = 1 .. cfg.no_agents
                /\ pc' = "idle"
    /\ UNCHANGED <<cfg, removed, deaths, steps, collected, import_draws, cur, todo, sweep>>

SpecConstruct == InitNew /\ [][Construct]_vars

\* ---- the claims ----

\* C1: at every step boundary susceptible + infected + immune + deaths is the
\* number of agents ever created (the initial agents and every import).
PopulationConservation ==
    pc = "idle" => susceptible + infected + immune + deaths = Len(created)

\* C2: no agent, initial or imported, is infected and immune at once, in any
\* state, the states between the sub-steps of an activation included.
MutualExclusion ==
    \A o \in DOMAIN agents : ~(agents[o].infected /\ agents[o].immune)

\* an imported agent has just recovered, between update_recovered and
\* update_susceptible
MutualExclusionWitness ==
    /\ pc = "update_susceptible"
    /\ agents[cur].immune
    /\ agents[cur].unique_id \in ImportIds

\* C3: for every agent, recovery_countdown > 0 implies infected,
\* immunity_countdown > 0 implies immune, and no countdown is negative.
CountdownConsistency ==
    \A o \in DOMAIN agents :
      /\ agents[o].recovery_countdown > 0 => agents[o].infected
      /\ agents[o].immunity_countdown > 0 => agents[o].immune
      /\ agents[o].recovery_countdown >= 0
      /\ agents[o].immunity_countdown >= 0

\* one agent counts down to its recovery while another, recovered in an
\* earlier step, counts down its immunity
CountdownConsistencyWitness ==
    /\ pc = "idle"
    /\ steps >= 2
    /\ \E o \in DOMAIN agents : agents[o].recovery_countdown > 0
    /\ \E o \in DOMAIN agents : agents[o].immunity_countdown > 0

\* C4: no two agents ever created in a run have the same identifier.
UniqueIds ==
    \A i, j \in 1 .. Len(created) : i # j => created[i] # created[j]

\* C5: a model constructed from arguments that are not valid does not exist:
\* construction has failed.
ConstructionValidates ==
    pc = "idle" => ValidConfig(cfg)

\* C6 as stated: in the recovery scenario the agent is infected after each of
\* the steps 1 to 4, and immune and not infected after step 5.
RecoveryAfterExactlyFive ==
    (pc = "idle" /\ steps >= 1) =>
      /\ steps <= 4 => agents[1].infected
      /\ steps = 5 => ~agents[1].infected /\ agents[1].immune

\* C6 as amended: in the recovery scenario the agent recovers in the call of
\* step() whose number is the recovery_countdown it drew from 1..5 at its
\* creation: while it is infected, 1 <= recovery_countdown <= 5 - steps, so
\* after 5 calls it is not infected; an agent that is immune is not infected
\* and has at most immunity_period - 1 steps of immunity left.
RecoveryWithinFive ==
    pc = "idle" =>
      /\ agents[1].infected =>
           /\ 1 <= agents[1].recovery_countdown
           /\ agents[1].recovery_countdown <= 5 - steps
      /\ steps >= 5 => ~agents[1].infected
      /\ ~agents[1].infected => steps >= 1 /\ agents[1].recovery_countdown = 0
      /\ agents[1].immune =>
           /\ ~agents[1].infected
           /\ 1 <= agents[1].immunity_countdown
           /\ agents[1].immunity_countdown <= cfg.immunity_period - 1

\* the agent that drew 5 has recovered in the fifth call of step()
RecoveryWithinFiveWitness ==
    /\ pc = "idle"
    /\ steps = 5
    /\ agents[1].immune
    /\ agents[1].immunity_countdown = cfg.immunity_period - 1

\* C7 as stated: in the transmission scenario the susceptible agent is
\* infected after one call of step().
CertainTransmission ==
    (pc = "idle" /\ steps = 1 /\ 2 \in DOMAIN agents) => agents[2].infected

\* C7 as amended: in the transmission scenario, when the isolation policy is
\* disabled and the infected agent does not recover in that step (its
\* recovery_countdown was not 1), the susceptible agent, unless the death sweep
\* of that step has removed it, is infected after one call of step().
TransmissionWhileInfectious ==
    ( /\ pc = "idle" /\ steps = 1
      /\ cfg.isolation_enabled = "no"
      /\ agents[1].infected
      /\ 2 \in DOMAIN agents ) => agents[2].infected

\* the first step of the scenario is over and the second agent is infected
TransmissionWhileInfectiousWitness ==
    /\ pc = "idle" /\ steps = 1
    /\ cfg.isolation_enabled = "no"
    /\ agents[1].infected
    /\ 2 \in DOMAIN agents
    /\ agents[2].infected

\* C8: with infected_import = 0.0 no agent is ever created by importation and
\* the number of agents in the schedule never increases.
NoImportation ==
    /\ [](cfg.infected_import = 0 => Len(created) = cfg.no_agents)
    /\ [][cfg.infected_import = 0 => Len(schedule') <= Len(schedule)]_vars

\* several steps without importation are over, and the sweep has removed an
\* agent
NoImportationWitness ==
    /\ pc = "idle"
    /\ steps >= 2
    /\ cfg.infected_import = 0
    /\ Len(schedule) < cfg.no_agents

\* C9: the position of every agent is inside the grid: 0 <= x <= width - 1 and
\* 0 <= y <= height - 1.
PositionBounds ==
    \A o \in DOMAIN agents :
      /\ 0 <= agents[o].pos[1] /\ agents[o].pos[1] <= cfg.width - 1
      /\ 0 <= agents[o].pos[2] /\ agents[o].pos[2] <= cfg.height - 1

\* an agent has moved and is in the corner (width - 1, height - 1) of a grid
\* of more than one cell
PositionBoundsWitness ==
    /\ pc = "update_infected"
    /\ cfg.width > 1
    /\ ~agents[cur].lockdown
    /\ agents[cur].pos = <<cfg.width - 1, cfg.height - 1>>

ObservationBeforeMutation ==
    /\ []((pc = "schedule" /\ todo = Scheduled) =>
            collected = <<susceptible, infected, deaths, immune>>)
    /\ [][(collected' # collected => pc \in {"idle", "raised"} /\ pc' = "schedule")]_vars
    /\ [][(pc \in {"idle", "raised"} =>
            /\ pc' = "schedule"
            /\ UNCHANGED <<agents, schedule, grid, deaths, created>>)]_vars
    /\ [][(pc' # pc =>
            <<pc, pc'>> \in { <<"idle", "schedule">>, <<"raised", "schedule">>,
                             <<"schedule", "move">>, <<"move", "update_infected">>,
                             <<"update_infected", "update_recovered">>,
                             <<"update_recovered", "update_susceptible">>,
                             <<"update_susceptible", "update_lockdown">>,
                             <<"update_lockdown", "schedule">>,
                             <<"schedule", "remove_deaths">>,
                             <<"remove_deaths", "import">>,
                             <<"import", "idle">>, <<"import", "raised">> })]_vars

\* a later call has just recorded counts that show a death of an earlier call
ObservationBeforeMutationWitness ==
    /\ pc = "schedule"
    /\ todo = Scheduled
    /\ steps >= 1
    /\ Len(schedule) >= 1
    /\ collected[3] >= 1

\* C12: in a call of step() every agent of the schedule is activated once: it
\* leaves the agents to activate when its activation starts, its five
\* sub-steps run in order with no other agent changing meanwhile, and the
\* activation phase ends when no agent is left; an imported agent enters no
\* activation of its call and is among the agents to activate of the next.
ExactlyOnceActivation ==
    /\ [](todo \subseteq Scheduled)
    /\ [](pc \in {"move", "update_infected", "update_recovered", "update_susceptible",
                  "update_lockdown"} => cur \in Scheduled /\ cur \notin todo)
    /\ [](pc \in {"remove_deaths", "import", "idle", "raised"} => todo = {} /\ cur = 0)
    /\ [][((pc \in {"idle", "raised"} /\ pc' = "schedule") =>
            todo' = { schedule[i] : i \in 1 .. Len(schedule) })]_vars
    /\ [][((pc = "schedule" /\ pc' = "move") => cur' \in todo /\ todo' = todo \ {cur'})]_vars
    /\ [][((pc = "schedule" /\ pc' = "remove_deaths") => todo = {})]_vars
    /\ [][(pc \in {"move", "update_infected", "update_recovered", "update_susceptible",
                  "update_lockdown"} =>
            /\ todo' = todo
            /\ cur' = IF pc = "update_lockdown" THEN 0 ELSE cur
            /\ DOMAIN agents' = DOMAIN agents
            /\ \A o \in DOMAIN agents \ {cur} : agents'[o] = agents[o]
            /\ pc' = CASE pc = "move" -> "update_infected"
                       [] pc = "update_infected" -> "update_recovered"
                       [] pc = "update_recovered" -> "update_susceptible"
                       [] pc = "update_susceptible" -> "update_lockdown"
                       [] pc = "update_lockdown" -> "schedule")]_vars

\* an imported agent is the last of two agents to be activated in a later call
ExactlyOnceActivationWitness ==
    /\ pc = "update_lockdown"
    /\ agents[cur].unique_id \in ImportIds
    /\ todo = {}
    /\ Len(schedule) = 2

\* C14: an agent leaves the schedule only in remove_deaths, when its turn in
\* the sweep comes and its fatal flag is set, and leaves the grid with it; a
\* removed agent is never in the schedule or the grid again; the sweep goes
\* once through every agent of the schedule, each of them still live.
DeathSweep ==
    /\ [][(\A o \in Scheduled :
            o \notin Scheduled' =>
              /\ pc = "remove_deaths"
              /\ sweep # <<>> /\ o = Head(sweep)
              /\ agents[o].fatal
              /\ o \notin grid')]_vars
    /\ [](removed \cap (Scheduled \cup grid) = {})
    /\ [](pc = "remove_deaths" =>
            \A i \in 1 .. Len(sweep) :
              /\ sweep[i] \in Scheduled /\ sweep[i] \in grid
              /\ \A j \in 1 .. Len(sweep) : j # i => sweep[j] # sweep[i])
    /\ [][((pc = "schedule" /\ pc' = "remove_deaths") => sweep' = schedule)]_vars
    /\ [][((pc = "remove_deaths" /\ sweep # <<>>) => sweep' = Tail(sweep))]_vars

\* C15: in the importation of a call an agent is created only when both draws
\* succeeded, and at most one; an agent that was added is infected, in the
\* schedule and in one cell of the grid; when a draw failed, the importation
\* changes nothing; no agent is created outside the importation.
DoubleGatedImportation ==
    /\ [][(created' # created => pc = "import")]_vars
    /\ [][(pc = "import" =>
            /\ Len(created') <= Len(created) + 1
            /\ Len(created') = Len(created) + 1 => import_draws' = <<TRUE, TRUE>>
            /\ (Len(created') = Len(created) + 1 /\ pc' = "idle") =>
                 LET o == Len(created')
                 IN /\ o \in Scheduled' /\ o \in grid'
                    /\ Scheduled' \ Scheduled = {o}
                    /\ grid' \ grid = {o}
                    /\ agents'[o].infected
                    /\ agents'[o].pos \in Cells(cfg)
            /\ import_draws' # <<TRUE, TRUE>> =>
                 /\ import_draws' \in {<<FALSE>>, <<TRUE, FALSE>>}
                 /\ UNCHANGED <<agents, schedule, grid, created>>)]_vars

\* the importation has added an agent whose own draw was not infected
DoubleGatedImportationWitness ==
    /\ pc = "idle"
    /\ import_draws = <<TRUE, TRUE>>
    /\ Len(created) > cfg.no_agents
    /\ Len(created) \in Scheduled
    /\ agents[Len(created)].infected
    /\ agents[Len(created)].recovery_countdown = 0

\* C16: an agent becomes infected only in its own update_infected, when it is
\* neither infected nor immune and an infected agent that is not in lockdown
\* is in its cell; its recovery_countdown is then infection_period; an agent
\* that is infected or immune, or has no such agent in its cell, leaves
\* update_infected unchanged; fatal changes only with a new infection.
InfectionPrecondition ==
    /\ [][(\A o \in DOMAIN agents \cap DOMAIN agents' :
            (~agents[o].infected /\ agents'[o].infected) =>
              /\ pc = "update_infected" /\ o = cur
              /\ ~agents[o].immune
              /\ \E q \in grid : /\ agents[q].pos = agents[o].pos
                                 /\ agents[q].infected /\ ~agents[q].lockdown
              /\ agents'[o].recovery_countdown = cfg.infection_period)]_vars
    /\ [][(\A o \in DOMAIN agents \cap DOMAIN agents' :
            agents'[o].fatal # agents[o].fatal =>
              pc = "update_infected" /\ o = cur /\ ~agents[o].infected /\ agents'[o].infected)]_vars
    /\ [][((/\ pc = "update_infected"
           /\ \/ agents[cur].infected \/ agents[cur].immune
              \/ ~\E q \in grid : /\ agents[q].pos = agents[cur].pos
                                  /\ agents[q].infected /\ ~agents[q].lockdown) =>
            agents' = agents)]_vars

\* an agent has just been infected by another, and its draw of fatal succeeded
InfectionPreconditionWitness ==
    /\ pc = "update_recovered"
    /\ agents[cur].infected
    /\ agents[cur].fatal
    /\ agents[cur].recovery_countdown = cfg.infection_period

\* C17: update_recovered and update_susceptible leave fatal as it is, so an
\* agent that recovers with fatal set is immune with fatal set, and when its
\* turn in a sweep comes the sweep can remove it.
FatalSurvivesRecovery ==
    /\ [][(pc \in {"update_recovered", "update_susceptible"} =>
            agents'[cur].fatal = agents[cur].fatal)]_vars
    /\ []((/\ pc = "remove_deaths" /\ sweep # <<>>
           /\ agents[Head(sweep)].fatal /\ agents[Head(sweep)].immune) =>
            ENABLED (RemoveDeaths /\ Head(sweep) \notin Scheduled'))

\* the sweep has reached an immune agent with fatal set
FatalSurvivesRecoveryWitness ==
    /\ pc = "remove_deaths"
    /\ sweep # <<>>
    /\ agents[Head(sweep)].fatal
    /\ agents[Head(sweep)].immune

\* C18: at a step boundary an agent is in lockdown only if the isolation
\* policy is enabled and it is infected or immune; with the policy disabled no
\* agent is ever in lockdown; move leaves an agent in lockdown where it is.
LockdownGating ==
    /\ [](pc \in {"idle", "raised"} =>
            \A o \in DOMAIN agents :
              agents[o].lockdown =>
                /\ cfg.isolation_enabled = "yes"
                /\ agents[o].infected \/ agents[o].immune)
    /\ [](cfg.isolation_enabled = "no" => \A o \in DOMAIN agents : ~agents[o].lockdown)
    /\ [][((pc = "move" /\ agents[cur].lockdown) => agents'[cur].pos = agents[cur].pos)]_vars

\* the move of an agent in lockdown is over
LockdownGatingWitness ==
    /\ pc = "update_infected"
    /\ agents[cur].lockdown
    /\ cfg.isolation_enabled = "yes"
    /\ cfg.width > 1

\* C19: at every step boundary every infected agent of the schedule has
\* 1 <= recovery_countdown <= infection_period.
EveryInfectionEnds ==
    pc = "idle" =>
      \A o \in Scheduled :
        agents[o].infected =>
          /\ 1 <= agents[o].recovery_countdown
          /\ agents[o].recovery_countdown <= cfg.infection_period

\* C20: the fatal flag of a live agent, once set, stays set in every later
\* state, through recovery, loss of immunity and a later infection.
FatalMonotone ==
    [][(\A o \in DOMAIN agents \cap DOMAIN agents' : agents[o].fatal => agents'[o].fatal)]_vars

====
